---------------------------- MODULE Spec2Model ----------------------------
(***************************************************************************)
(* flask_rest_jsonapi/decorators.py: the three decorators that wrap a view *)
(* method (check_headers, check_method_requirements and                    *)
(* jsonapi_exception_formatter), each called on its own around a stub      *)
(* function, and stacked as the pipeline                                   *)
(*   jsonapi_exception_formatter(check_headers(                            *)
(*       check_method_requirements(func))).                                *)
(*                                                                         *)
(* Representation.                                                         *)
(*  - A Python str that the code only compares or stores is a TLA+ string. *)
(*  - The Accept header value, which the code splits, strips and searches, *)
(*    is a sequence of lexemes: a media type name, a parameter suffix, a   *)
(*    blank or a comma.  Splitting, stripping and substring search work on *)
(*    that sequence.                                                       *)
(*  - A header value is tagged "str" or "list", because the code asks      *)
(*    which of the two it is.                                              *)
(*  - None is the string "None"; an object's attributes are a function     *)
(*    from the names it has to their values.                               *)
(*  - request, current_app, the view instance and the wrapped function are *)
(*    ambient: each is an input of the step that first reads it.           *)
(***************************************************************************)
EXTENDS Naturals, Sequences, FiniteSets, TLC

VARIABLES
    pc,           \* where the call is: idle, a decorator, func, formatter, done
    op,           \* the callable being invoked (one decorator, or the pipeline)
    request,      \* flask.request: method and headers
    view,         \* args[0]: the view instance the method is bound to
    func,         \* what the wrapped function does when it is invoked
    app,          \* flask.current_app: config and extensions
    outcome,      \* what the call has produced so far: a value or a raised failure
    invoked,      \* the wrapped function's body has run
    caught,       \* the failure an except clause of the formatter received
    captured,     \* number of captureException() calls made
    constructed   \* the formatter has built a JsonApiException of its own

vars == <<pc, op, request, view, func, app, outcome, invoked, caught, captured,
          constructed>>

---------------------------------------------------------------------------
(* Bounds of the inputs.                                                   *)

\* longest list-like Content-Type header value
MaxList == 2

\* most comma-separated candidates in an Accept header value
MaxCandidates == 2

---------------------------------------------------------------------------
(* Python values.                                                          *)

None == "None"

VND == "application/vnd.api+json"

JSON == "application/json"

HTML == "text/html"

\* a media type parameter suffix, as in "application/vnd.api+json; charset=utf-8"
PARAM == "; charset=utf-8"

SP == " "

COMMA == ","

ALLOWED_HEADERS == {VND, JSON}

\* a str written as a sequence of lexemes equals a one-lexeme literal
StrEq(s, literal) == s = <<literal>>

\* the Python expression  literal in s
StrContains(s, literal) == \E i \in DOMAIN s : s[i] = literal

\* s.strip(): leading and trailing blanks removed
RECURSIVE strip(_)
strip(s) ==
    IF s = << >> THEN s
    ELSE IF Head(s) = SP THEN strip(Tail(s))
    ELSE IF s[Len(s)] = SP THEN strip(SubSeq(s, 1, Len(s) - 1))
    ELSE s

\* s.split(','): the pieces between commas, in order ("" gives one empty piece)
RECURSIVE split(_)
split(s) ==
    IF \A i \in DOMAIN s : s[i] # COMMA THEN <<s>>
    ELSE LET k == CHOOSE i \in DOMAIN s :
                      s[i] = COMMA /\ \A j \in 1..(i - 1) : s[j] # COMMA
         IN  <<SubSeq(s, 1, k - 1)>> \o split(SubSeq(s, k + 1, Len(s)))

\* method.lower() on the HTTP methods
lower(s) ==
    CASE s = "GET"    -> "get"
      [] s = "POST"   -> "post"
      [] s = "PATCH"  -> "patch"
      [] s = "DELETE" -> "delete"

\* hasattr(obj, name) / getattr(obj, name, default) on an attribute function
hasattr(attrs, name) == name \in DOMAIN attrs

getattr(attrs, name, default) == IF name \in DOMAIN attrs THEN attrs[name] ELSE default

\* a or b on str/None operands
PyOr(a, b) == IF a \notin {None, ""} THEN a ELSE b

---------------------------------------------------------------------------
(* Outcomes of a call.                                                     *)

\* the wrapper hands over to the function it wraps
CallFunc == [kind |-> "call"]

Raise(e) == [kind |-> "raise", exc |-> e]

\* make_response(body, status, headers)
make_response(body, status, headers) ==
    [kind |-> "response", body |-> body, status |-> status, headers |-> headers]

\* errors.jsonapi_errors: the list of error dicts inside the envelope
jsonapi_errors(errors) == [errors |-> errors]

\* request.headers[name] on a missing name: str(e) of a KeyError is the repr
\* of the key, the name between single quotes
KeyError(name) ==
    [type |-> "KeyError", str |-> "'" \o name \o "'", attrs |-> << >>]

\* Exception(message)
Exception(message) == [type |-> "Exception", str |-> message, attrs |-> << >>]

\* exceptions.JsonApiException(detail, source=..., title=..., status=..., ...):
\* a status of None leaves the class default
DefaultStatus == "400"

JsonApiException(detail, source, title, status, code, id_, links, meta) ==
    [type  |-> "JsonApiException",
     str   |-> "",
     attrs |-> [detail |-> detail, source |-> source, title |-> title,
                status |-> IF status = None THEN DefaultStatus ELSE status,
                code |-> code, id |-> id_, links |-> links, meta |-> meta]]

\* JsonApiException.to_dict()
to_dict(e) == e.attrs

---------------------------------------------------------------------------
(* check_headers.                                                          *)

_is_list_like(value) == value.type = "list"

\* set(value) of a list, set([value]) of a str
HeaderSet(value) ==
    IF _is_list_like(value)
    THEN {value.v[i] : i \in DOMAIN value.v}
    ELSE {value.v}

InvalidHeader(detail, status) ==
    [source |-> "", detail |-> detail, title |-> "Invalid request header",
     status |-> status]

JsonApiHeaders == ("Content-Type" :> VND)

Response415 ==
    make_response(
        jsonapi_errors(<<InvalidHeader(
            "Content-Type header must be application/vnd.api+json", "415")>>),
        415, JsonApiHeaders)

\* the two adjacent literals of the detail are joined as they stand
Response406 ==
    make_response(
        jsonapi_errors(<<InvalidHeader(
            "Accept header must be application/vnd.api+json without"
                \o "media type parameters", "406")>>),
        406, JsonApiHeaders)

\* the Content-Type block of the wrapper; CallFunc stands for falling through
ContentTypeCheck(req) ==
    IF req.method \in {"POST", "PATCH"}
    THEN LET has_content_type_header == "Content-Type" \notin DOMAIN req.headers
         IN  IF "Content-Type" \notin DOMAIN req.headers
             THEN Raise(KeyError("Content-Type"))
             ELSE LET header_set == HeaderSet(req.headers["Content-Type"])
                      header_is_allowed == ALLOWED_HEADERS \cap header_set
                  IN  IF ~(has_content_type_header /\ header_is_allowed # {})
                      THEN Response415
                      ELSE CallFunc
    ELSE CallFunc

\* variant: an exact match ends the loop but leaves the flag as it is
RECURSIVE AcceptScanNoReset(_, _, _)
AcceptScanNoReset(candidates, i, flag) ==
    IF i > Len(candidates) THEN flag
    ELSE LET accept == candidates[i]
         IN  IF \E h \in ALLOWED_HEADERS : StrEq(strip(accept), h)
             THEN flag
             ELSE AcceptScanNoReset(candidates, i + 1,
                             IF StrContains(accept, VND) /\ ~StrEq(strip(accept), VND)
                             THEN TRUE ELSE flag)

\* the loop over the candidates, from candidate i on, with the flag so far
RECURSIVE AcceptScan(_, _, _)
AcceptScan(candidates, i, flag) ==
    IF i > Len(candidates) THEN flag
    ELSE LET accept == candidates[i]
         IN  IF \E h \in ALLOWED_HEADERS : StrEq(strip(accept), h)
             THEN FALSE
             ELSE AcceptScan(candidates, i + 1,
                             IF StrContains(accept, VND) /\ ~StrEq(strip(accept), VND)
                             THEN TRUE ELSE flag)

\* the Accept block of the wrapper
AcceptCheck(req) ==
    IF "Accept" \in DOMAIN req.headers
    THEN IF AcceptScan(split(req.headers["Accept"]), 1, FALSE)
         THEN Response406
         ELSE CallFunc
    ELSE CallFunc

\* the wrapper up to its call of func
check_headers(req) ==
    IF ContentTypeCheck(req).kind # "call"
    THEN ContentTypeCheck(req)
    ELSE AcceptCheck(req)

---------------------------------------------------------------------------
(* check_method_requirements.                                              *)

\* error_message.format(**error_data)
error_message(error_field, cls, method) ==
    "You must provide " \o error_field \o " in " \o cls
        \o " to get access to the default " \o method \o " method"

\* variant: DELETE is checked like every other method
check_method_requirementsAllMethods(req, v) ==
    IF ~hasattr(v.attrs, "schema")
    THEN Raise(Exception(error_message("a schema class", v.cls, lower(req.method))))
    ELSE CallFunc

\* the wrapper up to its call of func
check_method_requirements(req, v) ==
    IF req.method # "DELETE" /\ ~hasattr(v.attrs, "schema")
    THEN Raise(Exception(error_message("a schema class", v.cls, lower(req.method))))
    ELSE CallFunc

---------------------------------------------------------------------------
(* jsonapi_exception_formatter.                                            *)

\* current_app.config.get(key)
config_get(config, key) == IF key \in DOMAIN config THEN config[key] ELSE None

\* current_app.config[key] is True / current_app.config.get(key) is True
IsTrue(config, key) == key \in DOMAIN config /\ config[key] = TRUE

\* variant: the response takes the default status, not the exception's
JsonApiExceptionClauseDefaultStatus(e) ==
    make_response(jsonapi_errors(<<to_dict(e)>>), DefaultStatus, JsonApiHeaders)

\* except JsonApiException as e
JsonApiExceptionClause(e) ==
    make_response(jsonapi_errors(<<to_dict(e)>>), e.attrs.status, JsonApiHeaders)

\* variant: only DEBUG is consulted
ReraisesDebugOnly(a) == IsTrue(a.config, "DEBUG")

\* variant: an unexpected failure is re-raised whatever the configuration
ReraisesAlways(a) == TRUE

\* the test that re-raises an unexpected failure
Reraises(a) ==
    IsTrue(a.config, "DEBUG") \/ IsTrue(a.config, "PROPAGATE_EXCEPTIONS")

\* 'sentry' in current_app.extensions
HasSentry(a) == "sentry" \in DOMAIN a.extensions

\* what captureException() raises when the reporter itself fails
SentryFailure == [type |-> "SentryError", str |-> "capture failed", attrs |-> << >>]

\* the JsonApiException built from an unexpected failure
Translate(e, a) ==
    JsonApiException(
        getattr(e.attrs, "detail",
                PyOr(config_get(a.config, "GLOBAL_ERROR_MESSAGE"), e.str)),
        getattr(e.attrs, "source", ""),
        getattr(e.attrs, "title", None),
        getattr(e.attrs, "status", None),
        getattr(e.attrs, "code", None),
        getattr(e.attrs, "id", None),
        getattr(e.attrs, "links", None),
        getattr(e.attrs, "meta", None))

\* except Exception as e: the outcome, the captureException() calls made and
\* whether a JsonApiException was built
ExceptionClause(e, a) ==
    IF Reraises(a)
    THEN [outcome |-> Raise(e), captured |-> 0, constructed |-> FALSE]
    ELSE IF HasSentry(a) /\ a.extensions["sentry"] = "raises"
    THEN [outcome |-> Raise(SentryFailure), captured |-> 1, constructed |-> FALSE]
    ELSE [outcome |-> make_response(jsonapi_errors(<<to_dict(Translate(e, a))>>),
                                    Translate(e, a).attrs.status, JsonApiHeaders),
          captured |-> IF HasSentry(a) THEN 1 ELSE 0,
          constructed |-> TRUE]

---------------------------------------------------------------------------
(* Inputs.                                                                 *)

Methods == {"GET", "POST", "PATCH", "DELETE"}

MediaTypes == {VND, JSON, HTML}

SeqsUpTo(S, n) == UNION {[1..k -> S] : k \in 0..n}

ContentTypeValues ==
    {[type |-> "str", v |-> m] : m \in MediaTypes}
        \cup {[type |-> "list", v |-> l] : l \in SeqsUpTo(MediaTypes, MaxList)}

\* one Accept candidate as written between two commas
Candidates ==
    {<<VND>>, <<SP, VND>>, <<SP, JSON, SP>>, <<VND, PARAM>>, <<JSON, PARAM>>, <<HTML>>}

RECURSIVE Join(_)
Join(cs) == IF Len(cs) = 1 THEN cs[1] ELSE cs[1] \o <<COMMA>> \o Join(Tail(cs))

AcceptValues == {Join(cs) : cs \in SeqsUpTo(Candidates, MaxCandidates) \ {<< >>}}

AcceptHeaders == {<< >>} \cup {("Accept" :> a) : a \in AcceptValues}

ContentTypeHeaders == {<< >>} \cup {("Content-Type" :> c) : c \in ContentTypeValues}

\* requests with a body carry any Content-Type or none; of the others, whose
\* Content-Type is never read, one with a Content-Type and one without
Requests ==
    {[method |-> m, headers |-> c @@ a] :
        m \in {"POST", "PATCH"}, c \in ContentTypeHeaders, a \in AcceptHeaders}
    \cup {[method |-> m, headers |-> c @@ a] :
        m \in {"GET", "DELETE"},
        c \in {<< >>, ("Content-Type" :> [type |-> "str", v |-> HTML])},
        a \in AcceptHeaders}

\* the requests of which only the method is read
BareRequests == {[method |-> m, headers |-> << >>] : m \in Methods}

Views ==
    {[cls |-> c, attrs |-> a] :
        c \in {"PersonList", "PersonDetail"},
        a \in {<< >>, ("schema" :> "PersonSchema")}}

FullAttrs ==
    [detail |-> "Not found", source |-> "/data", title |-> "Missing",
     status |-> "404", code |-> "E42", id |-> "e-1", links |-> "about",
     meta |-> "m"]

Restrict(f, S) == [x \in S |-> f[x]]

FailureAttrs ==
    {Restrict(FullAttrs, S) :
        S \in {{}, {"detail"}, {"status"}, {"detail", "status"}, DOMAIN FullAttrs}}

Failures == {[type |-> "ValueError", str |-> "boom", attrs |-> a] : a \in FailureAttrs}

DomainErrors ==
    {JsonApiException("Not found", "", None, "404", None, None, None, None),
     JsonApiException("Bad request", "/data", "Bad", None, None, None, None, None)}

Funcs ==
    {[kind |-> "return", value |-> "ok"]}
        \cup {Raise(e) : e \in Failures \cup DomainErrors}

\* DEBUG is always configured; the other two keys may be missing
Configs ==
    {("DEBUG" :> d) @@ p @@ g :
        d \in BOOLEAN,
        p \in {<< >>} \cup {("PROPAGATE_EXCEPTIONS" :> b) : b \in BOOLEAN},
        g \in {<< >>} \cup {("GLOBAL_ERROR_MESSAGE" :> m) :
                                m \in {"", "Something went wrong"}}}

\* no reporter, one whose captureException() returns, one whose call raises
Extensions == {<< >>, ("sentry" :> "returns"), ("sentry" :> "raises")}

Apps == {[config |-> c, extensions |-> x] : c \in Configs, x \in Extensions}

NoRequest == [method |-> "", headers |-> << >>]

NoView == [cls |-> "", attrs |-> << >>]

NoFunc == [kind |-> "none"]

NoApp == [config |-> << >>, extensions |-> << >>]

NoOutcome == [kind |-> "none"]

NoFailure == [type |-> "none", str |-> "", attrs |-> << >>]

---------------------------------------------------------------------------
(* The calls.                                                              *)

Ops == {"check_headers", "check_method_requirements",
        "jsonapi_exception_formatter", "pipeline"}

\* where a call of o starts
First(o) ==
    CASE o = "check_headers"               -> "check_headers"
      [] o = "check_method_requirements"   -> "check_method_requirements"
      [] o = "jsonapi_exception_formatter" -> "func"
      [] o = "pipeline"                    -> "check_headers"

\* where control goes when the wrapped call has returned or raised
Unwind(o) ==
    IF o \in {"jsonapi_exception_formatter", "pipeline"} THEN "formatter" ELSE "done"

Init ==
    /\ pc = "idle"
    /\ op = "none"
    /\ request = NoRequest
    /\ view = NoView
    /\ func = NoFunc
    /\ app = NoApp
    /\ outcome = NoOutcome
    /\ invoked = FALSE
    /\ caught = NoFailure
    /\ captured = 0
    /\ constructed = FALSE

Call ==
    /\ pc = "idle"
    /\ \E o \in Ops : op' = o /\ pc' = First(o)
    /\ UNCHANGED <<request, view, func, app, outcome, invoked, caught, captured,
                 constructed>>

CheckHeaders ==
    /\ pc = "check_headers"
    /\ \E r \in Requests :
         /\ request' = r
         /\ IF check_headers(r).kind = "call"
            THEN /\ pc' = IF op = "pipeline" THEN "check_method_requirements" ELSE "func"
                 /\ UNCHANGED outcome
            ELSE /\ pc' = Unwind(op)
                 /\ outcome' = check_headers(r)
    /\ UNCHANGED <<op, view, func, app, invoked, caught, captured, constructed>>

\* the wrapped function runs: its return value or its failure is the outcome
Func ==
    /\ pc = "func"
    /\ \E f \in Funcs :
         /\ func' = f
         /\ outcome' = f
    /\ invoked' = TRUE
    /\ pc' = Unwind(op)
    /\ UNCHANGED <<op, request, view, app, caught, captured, constructed>>

CheckMethodRequirements ==
    /\ pc = "check_method_requirements"
    /\ \E v \in Views :
       \E r \in (IF op = "pipeline" THEN {request} ELSE BareRequests) :
         /\ view' = v
         /\ request' = r
         /\ IF check_method_requirements(r, v).kind = "call"
            THEN /\ pc' = "func"
                 /\ UNCHANGED outcome
            ELSE /\ pc' = Unwind(op)
                 /\ outcome' = check_method_requirements(r, v)
    /\ UNCHANGED <<op, func, app, invoked, caught, captured, constructed>>

\* return func(*args, **kwargs): the value passes through
FormatterReturn ==
    /\ pc = "formatter"
    /\ outcome.kind \in {"return", "response"}
    /\ pc' = "done"
    /\ UNCHANGED <<op, request, view, func, app, outcome, invoked, caught, captured,
                 constructed>>

FormatterJsonApiException ==
    /\ pc = "formatter"
    /\ outcome.kind = "raise"
    /\ outcome.exc.type = "JsonApiException"
    /\ \E a \in Apps : app' = a
    /\ caught' = outcome.exc
    /\ outcome' = JsonApiExceptionClause(outcome.exc)
    /\ pc' = "done"
    /\ UNCHANGED <<op, request, view, func, invoked, captured, constructed>>

FormatterException ==
    /\ pc = "formatter"
    /\ outcome.kind = "raise"
    /\ outcome.exc.type # "JsonApiException"
    /\ \E a \in Apps :
         /\ app' = a
         /\ caught' = outcome.exc
         /\ outcome' = ExceptionClause(outcome.exc, a).outcome
         /\ captured' = captured + ExceptionClause(outcome.exc, a).captured
         /\ constructed' = ExceptionClause(outcome.exc, a).constructed
    /\ pc' = "done"
    /\ UNCHANGED <<op, request, view, func, invoked>>

Next ==
    \/ Call
    \/ CheckHeaders
    \/ CheckMethodRequirements
    \/ Func
    \/ FormatterReturn
    \/ FormatterJsonApiException
    \/ FormatterException

Spec == Init /\ [][Next]_vars

---------------------------------------------------------------------------
(* Vocabulary of the properties, stated without the wrappers' own code.    *)

\* the call of the named decorator has read its inputs
Decided(o) == op = o /\ pc \in {"func", "done"}

\* the wrapped function is, or is about to be, invoked
HandedOver == IF pc = "done" THEN invoked ELSE pc = "func"

HasHeader(name) == name \in DOMAIN request.headers

BodyMethod == request.method \in {"POST", "PATCH"}

\* outcome is a response with this status code
Rejected(status) == outcome.kind = "response" /\ outcome.status = status

\* some trimmed candidate of the Accept header is exactly an accepted media type
AcceptHasExact ==
    \E i \in DOMAIN split(request.headers["Accept"]) :
        strip(split(request.headers["Accept"])[i]) \in {<<VND>>, <<JSON>>}

\* some candidate mentions vnd.api+json without being exactly it
AcceptHasParameterized ==
    \E i \in DOMAIN split(request.headers["Accept"]) :
        LET c == split(request.headers["Accept"])[i]
        IN  (\E k \in DOMAIN c : c[k] = VND) /\ strip(c) # <<VND>>

DebugOn == app.config["DEBUG"] = TRUE

PropagateOn ==
    "PROPAGATE_EXCEPTIONS" \in DOMAIN app.config
        /\ app.config["PROPAGATE_EXCEPTIONS"] = TRUE

\* an except clause of the formatter has handled a failure
Handled == pc = "done" /\ caught # NoFailure

HandledUnexpected == Handled /\ caught.type # "JsonApiException"

\* the detail and the status the translation of caught is to carry; a global
\* error message counts as set when it is configured and not empty
ExpectedDetail ==
    IF "detail" \in DOMAIN caught.attrs THEN caught.attrs["detail"]
    ELSE IF "GLOBAL_ERROR_MESSAGE" \in DOMAIN app.config
            /\ app.config["GLOBAL_ERROR_MESSAGE"] # ""
    THEN app.config["GLOBAL_ERROR_MESSAGE"]
    ELSE caught.str

ExpectedStatus ==
    IF "status" \in DOMAIN caught.attrs THEN caught.attrs["status"] ELSE "400"

\* the pipeline's check_method_requirements stage raised its configuration error
ConfigurationErrorRaised ==
    /\ op = "pipeline"
    /\ pc = "done"
    /\ view # NoView
    /\ request.method # "DELETE"
    /\ "schema" \notin DOMAIN view.attrs

ConfigurationError ==
    [type |-> "Exception",
     str |-> "You must provide a schema class in " \o view.cls
                 \o " to get access to the default " \o lower(request.method)
                 \o " method",
     attrs |-> << >>]

---------------------------------------------------------------------------
(* Properties.                                                             *)

\* C1: a POST or PATCH request without a Content-Type header makes
\* check_headers return a 415 response whose body holds exactly one error
\* with status "415"; nothing is raised and the wrapped function is not run.
C1_MissingContentTypeIs415 ==
    (Decided("check_headers") /\ BodyMethod /\ ~HasHeader("Content-Type"))
        => /\ pc = "done"
           /\ Rejected(415)
           /\ Len(outcome.body.errors) = 1
           /\ outcome.body.errors[1].status = "415"
           /\ ~invoked

\* C2: a POST or PATCH request whose Content-Type is, or as a list holds,
\* application/vnd.api+json or application/json, and whose Accept header is
\* absent or acceptable, is not rejected with 415 and reaches the wrapped
\* function.
C2_AllowedContentTypePasses ==
    (/\ Decided("check_headers")
     /\ BodyMethod
     /\ HasHeader("Content-Type")
     /\ \/ request.headers["Content-Type"].type = "str"
           /\ request.headers["Content-Type"].v \in {VND, JSON}
        \/ request.headers["Content-Type"].type = "list"
           /\ \E i \in DOMAIN request.headers["Content-Type"].v :
                 request.headers["Content-Type"].v[i] \in {VND, JSON}
     /\ (HasHeader("Accept") => (AcceptHasExact \/ ~AcceptHasParameterized)))
        => ~Rejected(415) /\ HandedOver

\* C3: a request with an Accept header that is past the Content-Type check
\* gets a 406 response exactly when no trimmed candidate is an accepted media
\* type and some candidate is a parameterized vnd.api+json; otherwise the
\* wrapped function is run.
C3_AcceptRejectedIffParameterizedOnly ==
    (/\ Decided("check_headers")
     /\ HasHeader("Accept")
     /\ ContentTypeCheck(request).kind = "call")
        => /\ Rejected(406) <=> (~AcceptHasExact /\ AcceptHasParameterized)
           /\ Rejected(406) => (pc = "done" /\ ~invoked)
           /\ ~Rejected(406) => HandedOver

\* C3 witness: a two-candidate Accept header with a parameterized vnd.api+json
\* and no exact match has been answered 406
C3_Witness ==
    /\ Decided("check_headers")
    /\ HasHeader("Accept")
    /\ Len(split(request.headers["Accept"])) = 2
    /\ Rejected(406)

\* C4: every 406 rejection has the header Content-Type:
\* application/vnd.api+json and a body of exactly one error with status "406",
\* title "Invalid request header" and the detail "Accept header must be
\* application/vnd.api+json without media type parameters".
C4_NotAcceptableBody ==
    (op = "check_headers" /\ pc = "done" /\ Rejected(406))
        => /\ outcome.headers["Content-Type"] = "application/vnd.api+json"
           /\ Len(outcome.body.errors) = 1
           /\ outcome.body.errors[1].status = "406"
           /\ outcome.body.errors[1].title = "Invalid request header"
           /\ outcome.body.errors[1].detail =
                "Accept header must be application/vnd.api+json without media type parameters"

\* C5: check_method_requirements raises "You must provide a schema class in
\* <class> to get access to the default <method> method" without running the
\* wrapped function when the method is not DELETE and the view has no schema
\* attribute; for DELETE, and whenever the view has a schema, the wrapped
\* function is run.
C5_SchemaRequiredExceptDelete ==
    Decided("check_method_requirements")
        => IF request.method # "DELETE" /\ "schema" \notin DOMAIN view.attrs
           THEN /\ pc = "done"
                /\ ~invoked
                /\ outcome.kind = "raise"
                /\ outcome.exc.type = "Exception"
                /\ outcome.exc.str =
                     "You must provide a schema class in " \o view.cls
                         \o " to get access to the default "
                         \o lower(request.method) \o " method"
           ELSE HandedOver /\ (pc = "done" => outcome = func)

\* C5 witness: a GET on a view without schema has raised
C5_Witness ==
    /\ Decided("check_method_requirements")
    /\ request.method = "GET"
    /\ "schema" \notin DOMAIN view.attrs
    /\ outcome.kind = "raise"

\* C6: a JsonApiException raised by the wrapped call becomes, in every
\* configuration, a response whose body is the envelope of that one error,
\* whose status is the exception's and whose Content-Type is
\* application/vnd.api+json; it is not re-raised and the reporter is not
\* called.
C6_JsonApiExceptionFormatted ==
    (Handled /\ caught.type = "JsonApiException")
        => /\ outcome.kind = "response"
           /\ outcome.body.errors = <<caught.attrs>>
           /\ outcome.status = caught.attrs.status
           /\ outcome.headers["Content-Type"] = "application/vnd.api+json"
           /\ captured = 0
           /\ ~constructed

\* C6 witness: a JsonApiException with status "404" was formatted while DEBUG
\* was on and a reporter was configured
C6_Witness ==
    /\ Handled
    /\ caught.type = "JsonApiException"
    /\ caught.attrs.status = "404"
    /\ DebugOn
    /\ "sentry" \in DOMAIN app.extensions
    /\ outcome.kind = "response"

\* C7: with debug and propagate-exceptions off, a failure that is not a
\* JsonApiException becomes a one-error envelope whose detail is the failure's
\* detail attribute, else the global error message, else str(failure), and
\* whose status is the failure's status attribute, else 400.
C7_UnexpectedFailureTranslated ==
    (HandledUnexpected /\ ~DebugOn /\ ~PropagateOn)
        => /\ outcome.kind = "response"
           /\ Len(outcome.body.errors) = 1
           /\ outcome.body.errors[1].detail = ExpectedDetail
           /\ outcome.status = ExpectedStatus

\* C8: with debug or propagate-exceptions on, a failure that is not a
\* JsonApiException is re-raised as it is: no response, no JsonApiException
\* built, no reporter call.
C8_UnexpectedFailureReraised ==
    (HandledUnexpected /\ (DebugOn \/ PropagateOn))
        => /\ outcome = [kind |-> "raise", exc |-> caught]
           /\ ~constructed
           /\ captured = 0

\* C8 witness: DEBUG off, PROPAGATE_EXCEPTIONS on, a reporter configured, and
\* the failure came back out
C8_Witness ==
    /\ HandledUnexpected
    /\ ~DebugOn
    /\ PropagateOn
    /\ "sentry" \in DOMAIN app.extensions
    /\ outcome.kind = "raise"

\* C9: with debug and propagate-exceptions off, no exception leaves the
\* formatter: whatever the wrapped call raised and whatever the reporter
\* does, the outcome is a response.
C9_NothingEscapes ==
    (Handled /\ ~DebugOn /\ ~PropagateOn) => outcome.kind = "response"

\* C10: in the pipeline, the configuration error of check_method_requirements
\* always reaches the caller as a raised failure, never as a response.
C10_ConfigurationErrorPropagated ==
    ConfigurationErrorRaised
        => outcome = [kind |-> "raise", exc |-> ConfigurationError]

\* C10 as amended: the configuration error reaches the caller as a raised
\* failure exactly when debug or propagate-exceptions is on; with both off it
\* is answered with a status-400 error envelope carrying the global error
\* message if a non-empty one is configured, else the error's message, unless
\* the reporter's own call raises, and then that failure is what escapes.
C10_ConfigurationErrorPropagatedIffDebug ==
    ConfigurationErrorRaised
        => /\ caught = ConfigurationError
           /\ (DebugOn \/ PropagateOn)
                => outcome = [kind |-> "raise", exc |-> ConfigurationError]
           /\ (~DebugOn /\ ~PropagateOn)
                => IF "sentry" \in DOMAIN app.extensions
                      /\ app.extensions["sentry"] = "raises"
                   THEN outcome.kind = "raise" /\ outcome.exc # ConfigurationError
                   ELSE /\ outcome.kind = "response"
                        /\ outcome.status = "400"
                        /\ Len(outcome.body.errors) = 1
                        /\ outcome.body.errors[1].detail = ExpectedDetail

\* C10 witness: with debug and propagate-exceptions off the configuration
\* error has been answered with a response
C10_Witness ==
    /\ ConfigurationErrorRaised
    /\ ~DebugOn
    /\ ~PropagateOn
    /\ outcome.kind = "response"

=============================================================================
